---------------------------- MODULE Spec2Model ----------------------------
(***************************************************************************)
(* Model of the two crop_image.py scripts of Language-Tool-Unity           *)
(* (Assets/Emoji System Base/Editor/Python):                               *)
(*   - crop_image.py                     argument mode   (mode = "arg")    *)
(*   - Crop Images Into Squares/crop_image.py  interactive (mode = "inter")*)
(* Both share cut_image_into_squares; the argument-mode copy also prints a *)
(* success message before returning.  The image library and the file       *)
(* system are the environment: opening, decoding, creating the directory   *)
(* and saving a tile each either succeed or raise.                         *)
(***************************************************************************)
EXTENDS Integers, Sequences, FiniteSets, TLC

(* ------------------------------ bounds -------------------------------- *)
MaxWidth == 5
MaxHeight == 5
MaxTokLen == 2
MaxPrompts == 3

(* ------------------------------ inputs -------------------------------- *)
Chars == {"-", "0", "1", "2", "x"}
Tokens == UNION {[1..n -> Chars] : n \in 1..MaxTokLen}
PathKinds == {"missing", "notimage", "truncated", "image"}
DestNames == {"tiles", "out/tiles"}
ArgCounts == {3, 4, 5}

NoArgs == [path |-> "missing", size |-> <<"0">>, dest |-> "tiles"]

\* Values of names that are not bound yet.  A string name holds None; an
\* int name holds 0 and is read only after the statement that binds it.
\* The exit status is <<>> while the script runs and <<n>> once it ended.
None == "None"
NoImage == [w |-> 0, h |-> 0]
NoSquare == [left |-> 0, top |-> 0, right |-> 0, bottom |-> 0]
NoCall == [image_png |-> None, square_size |-> 0, destination_folder |-> None]
Running == <<>>

PromptPath == "Enter the image path: "
PromptSize == "Enter the size of the square: "
PromptDest == "Enter the destination folder name: "
MsgInvalid == "Invalid image path. Try again."
MsgUsage == "Usage: script.py <image_path> <square_size> <destination_folder>"
MsgSuccess == "Images successfully applied to folder."

VARIABLES
    mode,              \* which script runs: "arg" or "inter"
    argc,              \* len(sys.argv)
    argv,              \* sys.argv[1..3] (path kind, size token, folder)
    imgW, imgH,        \* the size of the image stored in the file
    dirAtStart,        \* whether the destination folder existed at the start
    image_path,        \* kind of the path held by image_path, or None
    square_size,       \* int; 0 before it is parsed
    destination_folder,
    callArgs,          \* arguments cut_image_into_squares was called with
    calls,             \* number of calls of cut_image_into_squares
    img,               \* the opened image: its size [w, h]
    width, height,
    number_squares_horizontal, number_squares_vertical,
    dirExists,         \* os.path.exists(destination_folder)
    dirCreated,        \* os.makedirs was called and succeeded
    j, i,              \* loop variables; -1 before the first iteration
    square,            \* the cropped tile not yet saved: its box
    files,             \* tile files on disk written by this run
    writes,            \* log of the completed save calls, in order
    failLog,           \* log of the save calls that raised, in order
    out,               \* lines printed and prompts shown, in order
    paths,             \* kinds of the paths typed at the path prompt
    pc, err,
    exitStatus,        \* process exit status: <<>> running, <<n>> ended
    retval             \* value the call returned: <<>> is None, <<v>> is v

vars == <<mode, argc, argv, imgW, imgH, dirAtStart, image_path, square_size,
          destination_folder, callArgs, calls, img, width, height,
          number_squares_horizontal, number_squares_vertical, dirExists,
          dirCreated, j, i, square, files, writes, failLog, out, paths,
          pc, err, exitStatus, retval>>

ioVars == <<img, width, height, number_squares_horizontal,
            number_squares_vertical, dirExists, dirCreated, j, i, square,
            files, writes, failLog>>
envVars == <<mode, argc, argv, imgW, imgH, dirAtStart>>

(* --------------------------- pure functions --------------------------- *)
\* Rounding the quotient up instead of down.
CeilDiv(a, b) ==
    IF b > 0 THEN (a + b - 1) \div b ELSE -((-a) \div b)

\* Python's // : floor division, also for a negative divisor.
FloorDiv(a, b) ==
    IF b > 0 THEN a \div b
    ELSE IF a >= 0 THEN -((a + (-b) - 1) \div (-b))
    ELSE (-a) \div (-b)

DigitVal(c) == CASE c = "0" -> 0 [] c = "1" -> 1 [] c = "2" -> 2
                 [] c = "3" -> 3 [] c = "4" -> 4 [] c = "5" -> 5
                 [] c = "6" -> 6 [] c = "7" -> 7 [] c = "8" -> 8
                 [] c = "9" -> 9 [] OTHER -> -1

IsDigits(t) == Len(t) >= 1 /\ \A k \in 1..Len(t) : DigitVal(t[k]) >= 0

RECURSIVE DigitsVal(_)
DigitsVal(t) ==
    IF Len(t) = 0 THEN 0
    ELSE 10 * DigitsVal(SubSeq(t, 1, Len(t) - 1)) + DigitVal(t[Len(t)])

\* int(text): an optional sign and decimal digits; anything else raises
\* ValueError (ok = FALSE).
ParseInt(t) ==
    IF IsDigits(t) THEN [ok |-> TRUE, val |-> DigitsVal(t)]
    ELSE IF Len(t) >= 2 /\ t[1] = "-" /\ IsDigits(Tail(t))
         THEN [ok |-> TRUE, val |-> -DigitsVal(Tail(t))]
    ELSE [ok |-> FALSE, val |-> 0]

DigitStr(d) == CASE d = 0 -> "0" [] d = 1 -> "1" [] d = 2 -> "2"
                 [] d = 3 -> "3" [] d = 4 -> "4" [] d = 5 -> "5"
                 [] d = 6 -> "6" [] d = 7 -> "7" [] d = 8 -> "8"
                 [] d = 9 -> "9"

RECURSIVE DecStr(_)
\* str(n) of a non-negative int: decimal, no padding.
DecStr(n) == IF n < 10 THEN DigitStr(n)
             ELSE DecStr(n \div 10) \o DigitStr(n % 10)

\* The row written twice in place of the column.
FileNameRowOnly(jj, ii) ==
    "square_" \o DecStr(jj) \o "_" \o DecStr(jj) \o ".png"

\* f'square_{j}_{i}.png'
FileName(jj, ii) == "square_" \o DecStr(jj) \o "_" \o DecStr(ii) \o ".png"

\* os.path.join(destination_folder, file_name)
JoinPath(folder, name) == folder \o "/" \o name

\* The right and bottom edges one pixel too far.
BoxOffByOne(jj, ii, s) ==
    [left |-> ii * s, top |-> jj * s,
     right |-> ii * s + s + 1, bottom |-> jj * s + s + 1]

\* (left, top, right, bottom) of the tile at row jj, column ii.
Box(jj, ii, s) ==
    [left |-> ii * s, top |-> jj * s,
     right |-> ii * s + s, bottom |-> jj * s + s]

\* range(n)
Range(n) == 0..(n - 1)

(* ------------------------------- Init --------------------------------- *)
Init ==
    /\ mode \in {"arg", "inter"}
    /\ imgW \in 1..MaxWidth
    /\ imgH \in 1..MaxHeight
    /\ dirAtStart \in BOOLEAN
    /\ dirExists = dirAtStart
    /\ IF mode = "arg"
       THEN /\ argc \in ArgCounts
            /\ IF argc = 4
               THEN argv \in [path : PathKinds, size : Tokens, dest : DestNames]
               ELSE argv = NoArgs
       ELSE argc = 1 /\ argv = NoArgs
    /\ image_path = None
    /\ square_size = 0
    /\ destination_folder = None
    /\ callArgs = NoCall
    /\ calls = 0
    /\ img = NoImage
    /\ width = 0
    /\ height = 0
    /\ number_squares_horizontal = 0
    /\ number_squares_vertical = 0
    /\ dirCreated = FALSE
    /\ j = -1
    /\ i = -1
    /\ square = NoSquare
    /\ files = {}
    /\ writes = <<>>
    /\ failLog = <<>>
    /\ out = <<>>
    /\ paths = <<>>
    /\ pc = IF mode = "arg" THEN "main" ELSE "input_path"
    /\ err = None
    /\ exitStatus = Running
    /\ retval = <<>>

\* An uncaught exception ends the script with status 1.
Raise(e) == pc' = "crashed" /\ err' = e /\ exitStatus' = <<1>>

(* --------------------------- argument mode ---------------------------- *)
\* The usage message printed without the sys.exit(1) after it.
MainUsageNoExit ==
    /\ pc = "main" /\ argc # 4
    /\ out' = Append(out, MsgUsage)
    /\ image_path' = argv.path
    /\ square_size' = ParseInt(argv.size).val
    /\ destination_folder' = argv.dest
    /\ pc' = "call"
    /\ UNCHANGED <<envVars, ioVars, callArgs, calls, paths, err, exitStatus,
                   retval>>

\* if len(sys.argv) != 4: print usage; sys.exit(1)
MainUsage ==
    /\ pc = "main" /\ argc # 4
    /\ out' = Append(out, MsgUsage)
    /\ pc' = "exited" /\ exitStatus' = <<1>>
    /\ UNCHANGED <<envVars, ioVars, image_path, square_size,
                   destination_folder, callArgs, calls, paths, err, retval>>

\* image_path = argv[1]; square_size = int(argv[2]); destination = argv[3]
MainArgs ==
    /\ pc = "main" /\ argc = 4
    /\ image_path' = argv.path
    /\ IF ~ParseInt(argv.size).ok
       THEN /\ Raise("ValueError")
            /\ UNCHANGED <<square_size, destination_folder>>
       ELSE /\ square_size' = ParseInt(argv.size).val
            /\ destination_folder' = argv.dest
            /\ pc' = "call"
            /\ UNCHANGED <<err, exitStatus>>
    /\ UNCHANGED <<envVars, ioVars, callArgs, calls, out, paths, retval>>

(* -------------------------- interactive mode -------------------------- *)
\* image_path = input("Enter the image path: ")
InputPath ==
    /\ pc = "input_path"
    /\ \E k \in PathKinds :
          /\ image_path' = k
          /\ paths' = Append(paths, k)
    /\ out' = Append(out, PromptPath)
    /\ pc' = "while"
    /\ UNCHANGED <<envVars, ioVars, square_size, destination_folder,
                   callArgs, calls, err, exitStatus, retval>>

\* while not os.path.isfile(image_path):
WhilePath ==
    /\ pc = "while"
    /\ pc' = IF image_path = "missing" THEN "print_invalid" ELSE "input_size"
    /\ UNCHANGED <<envVars, ioVars, image_path, square_size,
                   destination_folder, callArgs, calls, out, paths, err,
                   exitStatus, retval>>

\*     print("Invalid image path. Try again.")
PrintInvalid ==
    /\ pc = "print_invalid"
    /\ out' = Append(out, MsgInvalid)
    /\ pc' = "reinput_path"
    /\ UNCHANGED <<envVars, ioVars, image_path, square_size,
                   destination_folder, callArgs, calls, paths, err, exitStatus,
                   retval>>

\* An if in place of the while: the second path is not checked.
ReinputPathOnce ==
    /\ pc = "reinput_path"
    /\ Len(paths) < MaxPrompts
    /\ \E k \in PathKinds :
          /\ image_path' = k
          /\ paths' = Append(paths, k)
    /\ out' = Append(out, PromptPath)
    /\ pc' = "input_size"
    /\ UNCHANGED <<envVars, ioVars, square_size, destination_folder,
                   callArgs, calls, err, exitStatus, retval>>

\*     image_path = input("Enter the image path: ")
ReinputPath ==
    /\ pc = "reinput_path"
    /\ Len(paths) < MaxPrompts
    /\ \E k \in PathKinds :
          /\ image_path' = k
          /\ paths' = Append(paths, k)
    /\ out' = Append(out, PromptPath)
    /\ pc' = "while"
    /\ UNCHANGED <<envVars, ioVars, square_size, destination_folder,
                   callArgs, calls, err, exitStatus, retval>>

\* square_size = int(input("Enter the size of the square: "))
InputSize ==
    /\ pc = "input_size"
    /\ out' = Append(out, PromptSize)
    /\ \E t \in Tokens :
          IF ~ParseInt(t).ok
          THEN Raise("ValueError") /\ UNCHANGED square_size
          ELSE /\ square_size' = ParseInt(t).val
               /\ pc' = "input_dest"
               /\ UNCHANGED <<err, exitStatus>>
    /\ UNCHANGED <<envVars, ioVars, image_path, destination_folder,
                   callArgs, calls, paths, retval>>

\* destination_folder = input("Enter the destination folder name: ")
InputDest ==
    /\ pc = "input_dest"
    /\ out' = Append(out, PromptDest)
    /\ \E d \in DestNames : destination_folder' = d
    /\ pc' = "call"
    /\ UNCHANGED <<envVars, ioVars, image_path, square_size, callArgs, calls,
                   paths, err, exitStatus, retval>>

(* ----------------------- cut_image_into_squares ----------------------- *)
\* cut_image_into_squares(image_path, square_size, destination_folder)
Call ==
    /\ pc = "call"
    /\ callArgs' = [image_png |-> image_path, square_size |-> square_size,
                    destination_folder |-> destination_folder]
    /\ calls' = calls + 1
    /\ pc' = "open"
    /\ UNCHANGED <<envVars, ioVars, image_path, square_size,
                   destination_folder, out, paths, err, exitStatus, retval>>

\* img = Image.open(image_png); width, height = img.size
OpenImage ==
    /\ pc = "open"
    /\ IF callArgs.image_png \in {"image", "truncated"}
       THEN /\ img' = [w |-> imgW, h |-> imgH]
            /\ width' = imgW
            /\ height' = imgH
            /\ pc' = "grid"
            /\ UNCHANGED <<err, exitStatus>>
       ELSE /\ Raise(IF callArgs.image_png = "missing"
                     THEN "FileNotFoundError" ELSE "UnidentifiedImageError")
            /\ UNCHANGED <<img, width, height>>
    /\ UNCHANGED <<envVars, image_path, square_size, destination_folder,
                   callArgs, calls, number_squares_horizontal,
                   number_squares_vertical, dirExists, dirCreated, j, i,
                   square, files, writes, failLog, out, paths, retval>>

\* number_squares_horizontal = width // square_size  (and vertical)
ComputeGrid ==
    /\ pc = "grid"
    /\ IF callArgs.square_size = 0
       THEN /\ Raise("ZeroDivisionError")
            /\ UNCHANGED <<number_squares_horizontal,
                           number_squares_vertical>>
       ELSE /\ number_squares_horizontal' =
                   FloorDiv(width, callArgs.square_size)
            /\ number_squares_vertical' =
                   FloorDiv(height, callArgs.square_size)
            /\ pc' = "mkdir"
            /\ UNCHANGED <<err, exitStatus>>
    /\ UNCHANGED <<envVars, image_path, square_size, destination_folder,
                   callArgs, calls, img, width, height, dirExists, dirCreated, j, i,
                   square, files, writes, failLog, out, paths, retval>>

\* The destination folder never created.
MakeDirsSkip ==
    /\ pc = "mkdir"
    /\ pc' = "for_j"
    /\ UNCHANGED <<envVars, ioVars, image_path, square_size,
                   destination_folder, callArgs, calls, out, paths, err,
                   exitStatus, retval>>

\* if not os.path.exists(destination_folder): os.makedirs(...)
MakeDirs ==
    /\ pc = "mkdir"
    /\ IF dirExists
       THEN /\ pc' = "for_j"
            /\ UNCHANGED <<dirExists, dirCreated, err, exitStatus>>
       ELSE \/ /\ dirExists' = TRUE
               /\ dirCreated' = TRUE
               /\ pc' = "for_j"
               /\ UNCHANGED <<err, exitStatus>>
            \/ /\ Raise("OSError_makedirs")
               /\ UNCHANGED <<dirExists, dirCreated>>
    /\ UNCHANGED <<envVars, image_path, square_size, destination_folder,
                   callArgs, calls, img, width, height, number_squares_horizontal,
                   number_squares_vertical, j, i, square, files, writes,
                   failLog, out, paths, retval>>

\* for j in range(number_squares_vertical):
ForJ ==
    /\ pc = "for_j"
    /\ IF j + 1 \in Range(number_squares_vertical)
       THEN j' = j + 1 /\ i' = -1 /\ pc' = "for_i"
       ELSE pc' = "after_loop" /\ UNCHANGED <<j, i>>
    /\ UNCHANGED <<envVars, image_path, square_size, destination_folder,
                   callArgs, calls, img, width, height, number_squares_horizontal,
                   number_squares_vertical, dirExists, dirCreated, square,
                   files, writes, failLog, out, paths, err, exitStatus,
                   retval>>

\* range(1, number_squares_horizontal): the first column skipped.
ForIFromOne ==
    /\ pc = "for_i"
    /\ LET n == IF i = -1 THEN 1 ELSE i + 1 IN
       IF n \in Range(number_squares_horizontal)
       THEN i' = n /\ pc' = "crop"
       ELSE pc' = "for_j" /\ UNCHANGED i
    /\ UNCHANGED <<envVars, image_path, square_size, destination_folder,
                   callArgs, calls, img, width, height,
                   number_squares_horizontal, number_squares_vertical,
                   dirExists, dirCreated, j, square, files, writes, failLog,
                   out, paths, err, exitStatus, retval>>

\*     for i in range(number_squares_horizontal):
ForI ==
    /\ pc = "for_i"
    /\ IF i + 1 \in Range(number_squares_horizontal)
       THEN i' = i + 1 /\ pc' = "crop"
       ELSE pc' = "for_j" /\ UNCHANGED i
    /\ UNCHANGED <<envVars, image_path, square_size, destination_folder,
                   callArgs, calls, img, width, height, number_squares_horizontal,
                   number_squares_vertical, dirExists, dirCreated, j, square,
                   files, writes, failLog, out, paths, err, exitStatus,
                   retval>>

\*         left, top, right, bottom = ...; square = img.crop((...))
\* The pixel data is loaded on the first crop; a truncated file raises.
Crop ==
    /\ pc = "crop"
    /\ IF callArgs.image_png = "truncated"
       THEN Raise("OSError_decode") /\ UNCHANGED square
       ELSE /\ square' = Box(j, i, callArgs.square_size)
            /\ pc' = "save"
            /\ UNCHANGED <<err, exitStatus>>
    /\ UNCHANGED <<envVars, image_path, square_size, destination_folder,
                   callArgs, calls, img, width, height, number_squares_horizontal,
                   number_squares_vertical, dirExists, dirCreated, j, i,
                   files, writes, failLog, out, paths, retval>>

\* The entry square.save(destination_path) leaves on disk.
SavedFile(folder, jj, ii, box) ==
    [path |-> JoinPath(folder, FileName(jj, ii)), row |-> jj, col |-> ii,
     box |-> box, w |-> box.right - box.left, h |-> box.bottom - box.top]

\* A failed save that deletes the tiles written so far before raising.
SaveRollback ==
    /\ pc = "save"
    /\ LET f == SavedFile(callArgs.destination_folder, j, i, square) IN
       \/ /\ files' = {g \in files : g.path # f.path} \cup {f}
          /\ writes' = Append(writes, f)
          /\ square' = NoSquare
          /\ pc' = "for_i"
          /\ UNCHANGED <<failLog, err, exitStatus>>
       \/ /\ failLog' = Append(failLog, <<j, i>>)
          /\ files' = {}
          /\ Raise("OSError_save")
          /\ UNCHANGED <<writes, square>>
    /\ UNCHANGED <<envVars, image_path, square_size, destination_folder,
                   callArgs, calls, img, width, height,
                   number_squares_horizontal, number_squares_vertical,
                   dirExists, dirCreated, j, i, out, paths, retval>>

\*         file_name = ...; destination_path = ...; square.save(...)
Save ==
    /\ pc = "save"
    /\ LET f == SavedFile(callArgs.destination_folder, j, i, square) IN
       \/ /\ files' = {g \in files : g.path # f.path} \cup {f}
          /\ writes' = Append(writes, f)
          /\ square' = NoSquare
          /\ pc' = "for_i"
          /\ UNCHANGED <<failLog, err, exitStatus>>
       \/ /\ failLog' = Append(failLog, <<j, i>>)
          /\ Raise("OSError_save")
          /\ UNCHANGED <<files, writes, square>>
    /\ UNCHANGED <<envVars, image_path, square_size, destination_folder,
                   callArgs, calls, img, width, height, number_squares_horizontal,
                   number_squares_vertical, dirExists, dirCreated, j, i,
                   out, paths, retval>>

\* The function ending with a return of the number of tiles written.
ReturnTileCount ==
    /\ pc = "after_loop"
    /\ out' = IF mode = "arg" THEN Append(out, MsgSuccess) ELSE out
    /\ retval' = <<Len(writes)>>
    /\ pc' = "done"
    /\ exitStatus' = <<0>>
    /\ UNCHANGED <<envVars, ioVars, image_path, square_size,
                   destination_folder, callArgs, calls, paths, err>>

\* print("Images successfully applied to folder.") in argument mode only;
\* the function ends without a return statement, the script ends.
Return ==
    /\ pc = "after_loop"
    /\ out' = IF mode = "arg" THEN Append(out, MsgSuccess) ELSE out
    /\ retval' = <<>>
    /\ pc' = "done"
    /\ exitStatus' = <<0>>
    /\ UNCHANGED <<envVars, ioVars, image_path, square_size,
                   destination_folder, callArgs, calls, paths, err>>

Next ==
    \/ MainUsage \/ MainArgs
    \/ InputPath \/ WhilePath \/ PrintInvalid \/ ReinputPath
    \/ InputSize \/ InputDest
    \/ Call \/ OpenImage \/ ComputeGrid \/ MakeDirs
    \/ ForJ \/ ForI \/ Crop \/ Save \/ Return

Spec == Init /\ [][Next]_vars

(* ====================== properties of the scripts ===================== *)
\* Shorthands used by the properties below.
SizeArg == callArgs.square_size
Rows == number_squares_vertical
Cols == number_squares_horizontal
Tiles == Range(Rows) \X Range(Cols)
WrittenTiles == {<<f.row, f.col>> : f \in files}
Completed == pc = "done"
\* The grid has been computed (line 12 was executed without raising).
GridKnown ==
    \/ pc \in {"mkdir", "for_j", "for_i", "crop", "save", "after_loop", "done"}
    \/ pc = "crashed" /\ err \in {"OSError_makedirs", "OSError_decode",
                                  "OSError_save"}
Count(seq, x) == Cardinality({k \in 1..Len(seq) : seq[k] = x})
\* (r1, c1) precedes (r2, c2) in row-major order.
RowMajorBefore(t1, t2) == t1[1] < t2[1] \/ (t1[1] = t2[1] /\ t1[2] < t2[2])
Pixels == (0..(imgW - 1)) \X (0..(imgH - 1))
Covers(f, px) ==
    /\ f.box.left <= px[1] /\ px[1] < f.box.right
    /\ f.box.top <= px[2] /\ px[2] < f.box.bottom

\* C1: for an image of w x h pixels and a square size s > 0, a completed run
\* has written exactly (w div s) * (h div s) tile files, each s x s pixels;
\* s = w gives 1 column, s = h gives 1 row, s above both gives no tile.
C1_TileCount ==
    (Completed /\ SizeArg > 0) =>
        /\ Cardinality(files) = (imgW \div SizeArg) * (imgH \div SizeArg)
        /\ Len(writes) = (imgW \div SizeArg) * (imgH \div SizeArg)
        /\ \A f \in files : f.w = SizeArg /\ f.h = SizeArg
        /\ SizeArg = imgW =>
              /\ Cols = 1
              /\ \A f \in files : f.col = 0
              /\ Cardinality(files) = imgH \div SizeArg
        /\ SizeArg = imgH =>
              /\ Rows = 1
              /\ \A f \in files : f.row = 0
              /\ Cardinality(files) = imgW \div SizeArg
        /\ (SizeArg > imgW /\ SizeArg > imgH) => files = {}

\* A completed run with several tiles and a remainder strip on both edges.
C1_Witness ==
    /\ Completed /\ SizeArg > 0
    /\ Cardinality(files) >= 2
    /\ imgW % SizeArg # 0 /\ imgH % SizeArg # 0

\* C2: for s > 0 the tiles written partition [0, Cols*s) x [0, Rows*s): tile
\* (row, col) covers exactly [col*s, (col+1)*s) x [row*s, (row+1)*s), no
\* pixel is covered twice, every pixel of the region is covered once the run
\* completed, every tile lies inside the image, and no pixel of the
\* remainder strip is covered.
C2_Partition ==
    (GridKnown /\ SizeArg > 0) =>
        /\ Cols * SizeArg <= imgW /\ Rows * SizeArg <= imgH
        /\ \A f \in files :
              /\ f.box.left = f.col * SizeArg
              /\ f.box.right = (f.col + 1) * SizeArg
              /\ f.box.top = f.row * SizeArg
              /\ f.box.bottom = (f.row + 1) * SizeArg
              /\ 0 <= f.box.left /\ f.box.right <= imgW
              /\ 0 <= f.box.top /\ f.box.bottom <= imgH
        /\ \A px \in Pixels :
              LET n == Cardinality({f \in files : Covers(f, px)})
                  inRegion == px[1] < Cols * SizeArg /\ px[2] < Rows * SizeArg
              IN /\ n <= 1
                 /\ ~inRegion => n = 0
                 /\ (Completed /\ inRegion) => n = 1

\* A completed run with four tiles or more and a remainder strip.
C2_Witness ==
    /\ Completed /\ SizeArg > 0
    /\ Cardinality(files) >= 4
    /\ (imgW % SizeArg # 0 \/ imgH % SizeArg # 0)

\* C4: tile (row, col) is written to destinationFolder/square_{row}_{col}.png;
\* two writes of a run never name the same file, so none overwrites an
\* earlier one, and after a completed run the files written are exactly
\* square_r_c.png for 0 <= r < rows, 0 <= c < columns.
C4_Name(r, c) ==
    callArgs.destination_folder \o "/square_" \o ToString(r) \o "_"
        \o ToString(c) \o ".png"

C4_FileNames ==
    /\ \A k \in 1..Len(writes) :
          writes[k].path = C4_Name(writes[k].row, writes[k].col)
    /\ \A k1, k2 \in 1..Len(writes) :
          k1 # k2 => /\ writes[k1].path # writes[k2].path
                     /\ <<writes[k1].row, writes[k1].col>> #
                            <<writes[k2].row, writes[k2].col>>
    /\ Cardinality(files) = Len(writes)
    /\ Completed =>
          {f.path : f \in files} = {C4_Name(t[1], t[2]) : t \in Tiles}

\* A completed run that wrote tiles in two rows and two columns.
C4_Witness ==
    /\ Completed
    /\ \E f, g \in files : f.row # g.row /\ f.col # g.col

\* C3: a square size of zero or below is rejected with InvalidSquareSize
\* before any file I/O: once the call has started executing with such a size
\* (on a readable image, so that nothing else ends the run) the run has
\* ended in that rejection, the image was never opened, the folder never
\* created and no tile written.
C3_RejectsNonPositive ==
    (calls > 0 /\ SizeArg <= 0 /\ callArgs.image_png = "image"
        /\ pc # "open") =>
        /\ pc = "crashed" /\ err = "InvalidSquareSize"
        /\ img = NoImage
        /\ ~dirCreated
        /\ files = {}

\* C5 as stated: on successful completion the call returns the number of
\* tiles written, rows * columns.
C5_ReturnsTileCount ==
    Completed => retval = <<Rows * Cols>>

\* C5 as amended: on successful completion the call returns None; the number
\* of tiles written is the number of cells (row, col) with 0 <= row < rows
\* and 0 <= col < columns, which is rows * columns when the size is positive.
C5_ReturnsNone ==
    Completed =>
        /\ retval = <<>>
        /\ Len(writes) =
              Cardinality((0..(Rows - 1)) \X (0..(Cols - 1)))
        /\ SizeArg > 0 => Len(writes) = Rows * Cols

\* A completed run that wrote several tiles.
C5_Witness ==
    Completed /\ Len(writes) >= 3 /\ Rows * Cols = Len(writes)

\* C6: with a positive size and an image smaller than one tile in a
\* dimension the run writes no tile, fails no save and raises nothing from
\* the loop; the folder was ensured before the empty loop: created if it was
\* absent, left alone if it was present.
C6_EmptyGrid ==
    (GridKnown /\ SizeArg > 0 /\ (Cols = 0 \/ Rows = 0)) =>
        /\ files = {} /\ writes = <<>> /\ failLog = <<>>
        /\ pc \notin {"crop", "save"}
        /\ pc = "crashed" => err = "OSError_makedirs"
        /\ pc \in {"for_j", "for_i", "after_loop", "done"} =>
              /\ dirExists
              /\ dirCreated <=> ~dirAtStart
        /\ Completed => exitStatus = <<0>> /\ err = None

\* A completed run over an empty grid with rows but no column, the folder
\* having been created by the run.
C6_Witness ==
    /\ Completed /\ SizeArg > 0
    /\ Cols = 0 /\ Rows > 0
    /\ dirCreated /\ files = {}

\* C7: in argument mode a wrong argument count prints the usage message and
\* exits with status 1 without opening the image, creating the folder or
\* writing a file; the success message is printed only after every tile of
\* the grid has been written and never in a run that raised.
C7_ArgumentMode ==
    mode = "arg" =>
        /\ (argc # 4 /\ pc # "main") =>
              /\ pc = "exited" /\ exitStatus = <<1>>
              /\ out = <<MsgUsage>>
              /\ calls = 0 /\ img = NoImage
              /\ ~dirCreated /\ dirExists = dirAtStart
              /\ files = {} /\ writes = <<>>
        /\ argc = 4 => Count(out, MsgUsage) = 0
        /\ Count(out, MsgSuccess) > 0 =>
              /\ Completed /\ err = None /\ failLog = <<>>
              /\ out = <<MsgSuccess>>
              /\ WrittenTiles = Tiles
              /\ Len(writes) = Cardinality(Tiles)
        /\ pc = "crashed" => Count(out, MsgSuccess) = 0

\* The usage exit of a run started with a wrong argument count.
C7_Witness ==
    /\ mode = "arg" /\ argc # 4
    /\ pc = "exited" /\ out = <<MsgUsage>>

\* C8: in interactive mode every invalid path typed is answered by the
\* invalid-path message followed by a new path prompt; the tiling function
\* is not called before a valid path was typed; after that the size and the
\* folder are each prompted once and passed on as typed, unvalidated.
C8_InteractiveMode ==
    mode = "inter" =>
        /\ \A k \in 1..Len(out) :
              out[k] = MsgInvalid =>
                 /\ k > 1 /\ out[k - 1] = PromptPath
                 /\ IF k < Len(out) THEN out[k + 1] = PromptPath
                    ELSE pc = "reinput_path"
        /\ Count(out, PromptPath) = Len(paths)
        /\ Count(out, MsgInvalid) =
              Count(paths, "missing") -
                 (IF pc \in {"while", "print_invalid"}
                     /\ paths[Len(paths)] = "missing" THEN 1 ELSE 0)
        /\ pc \in {"input_size", "input_dest", "call"} \/ calls > 0 =>
              /\ paths[Len(paths)] # "missing"
              /\ image_path = paths[Len(paths)]
              /\ \A k \in 1..(Len(paths) - 1) : paths[k] = "missing"
        /\ Count(out, PromptSize) <= 1 /\ Count(out, PromptDest) <= 1
        /\ calls <= 1
        /\ calls > 0 =>
              /\ Count(out, PromptSize) = 1 /\ Count(out, PromptDest) = 1
              /\ out[Len(out)] = PromptDest /\ out[Len(out) - 1] = PromptSize
              /\ callArgs = [image_png |-> image_path,
                             square_size |-> square_size,
                             destination_folder |-> destination_folder]

\* The call made after two invalid paths, with a size that is not positive.
C8_Witness ==
    /\ mode = "inter" /\ calls = 1
    /\ Count(out, MsgInvalid) >= 2
    /\ SizeArg <= 0

\* C9: a save that raises ends the run at that tile: it is the only failed
\* save, the tiles on disk are exactly those before it in row-major order,
\* each written once, and the run ended with the error.
C9_WriteFailure ==
    Len(failLog) > 0 =>
        /\ pc = "crashed" /\ err = "OSError_save" /\ exitStatus = <<1>>
        /\ failLog = << <<j, i>> >>
        /\ WrittenTiles = {t \in Tiles : RowMajorBefore(t, <<j, i>>)}
        /\ Len(writes) = Cardinality(WrittenTiles)
        /\ <<j, i>> \notin WrittenTiles
        /\ Count(out, MsgSuccess) = 0

\* A save that raised in the second row after tiles had been written.
C9_Witness ==
    /\ pc = "crashed" /\ err = "OSError_save"
    /\ j >= 1 /\ i >= 1
    /\ Cardinality(files) >= 3

\* C10: tiles are written one at a time in row-major order, each once; a
\* tile is cropped only when all tiles before it are saved; the folder is
\* ensured after the image was opened and before the first tile is written.
C10_RowMajorOrder ==
    /\ \A k \in 1..Len(writes) :
          /\ Cols > 0
          /\ writes[k].row = (k - 1) \div Cols
          /\ writes[k].col = (k - 1) % Cols
    /\ \A k1, k2 \in 1..Len(writes) :
          k1 < k2 <=> RowMajorBefore(<<writes[k1].row, writes[k1].col>>,
                                     <<writes[k2].row, writes[k2].col>>)
    /\ pc \in {"crop", "save"} =>
          /\ <<j, i>> \in Tiles
          /\ Len(writes) = j * Cols + i
          /\ dirExists /\ img = [w |-> imgW, h |-> imgH]
    /\ pc = "crop" => square = NoSquare
    /\ pc = "save" =>
          square = [left |-> i * SizeArg, top |-> j * SizeArg,
                    right |-> (i + 1) * SizeArg, bottom |-> (j + 1) * SizeArg]
    /\ Len(writes) > 0 => dirExists /\ img = [w |-> imgW, h |-> imgH]
    /\ (dirCreated \/ pc = "mkdir") => img = [w |-> imgW, h |-> imgH]
    /\ pc \in {"open", "grid"} => ~dirCreated /\ dirExists = dirAtStart
    /\ Completed =>
          \A t \in Tiles :
             Cardinality({k \in 1..Len(writes) :
                             <<writes[k].row, writes[k].col>> = t}) = 1

\* A completed run over two rows and two columns or more, into a folder the
\* run created.
C10_Witness ==
    /\ Completed /\ dirCreated
    /\ Rows >= 2 /\ Cols >= 2
    /\ Len(writes) = Rows * Cols

=============================================================================
